---- MODULE Spec2Model ----
(***************************************************************************)
(* A model of gifcrop.py: main() checks that the input path exists,        *)
(* validates the crop box, and crop_gif() opens the animated image, reads   *)
(* duration and loop from its header, copies, crops and (if needed)         *)
(* converts every frame until the decoder raises EOFError, and hands the    *)
(* frame list to the encoder.  The image library (PIL) is modelled by what  *)
(* the calls made by the program do: copy() yields the current frame,       *)
(* crop() yields a raster of the requested size and zero-fills what lies    *)
(* outside the source, convert('RGBA') rewrites every pixel as four bands,  *)
(* seek() past the last frame raises EOFError, and every library call may   *)
(* raise an ordinary error instead of returning.                            *)
(***************************************************************************)
EXTENDS Integers, Sequences, FiniteSets, TLC

\* Crop coordinates given on the command line range over -1..MaxCoord.
MaxCoord == 2
\* An input holds at most MaxFrames frames.
MaxFrames == 2
\* img.info.get('duration', 100)
DefaultDuration == 100
\* img.info.get('loop', 0)
DefaultLoop == 0

Coords == -1..MaxCoord
\* Colour modes of the frames an input may hold.
Modes == {"P", "RGBA", "RGB", "L"}
\* Width and height of an input's frames.
Dims == {<<1, 2>>, <<2, 1>>, <<2, 2>>}

VARIABLES
  pc,             \* the statement main() / crop_gif() executes next
  input_exists,   \* whether a file is at the input path
  args,           \* parsed command line: [left, top, right, bottom]
  img,            \* the opened image: its file's frames and size
  info,           \* img.info, the metadata of the frame img is positioned at
  fp,             \* the input file handle: "unopened", "open" or "closed"
  frame_no,       \* img.tell()
  current,        \* local of crop_gif
  cropped_frame,  \* local of crop_gif
  frames,         \* local of crop_gif
  duration,       \* local of crop_gif
  loop,           \* local of crop_gif
  exc,            \* the exception in flight, NoExc when none
  stdout,         \* what print() wrote, in order
  encoder_calls,  \* the calls of frames[0].save(...), in order
  output_file,    \* "untouched", "partial" or "written"
  exit_status,    \* main()'s return value, -1 while running
  calls           \* the stages entered so far, in order

vars == <<pc, input_exists, args, img, info, fp, frame_no, current, cropped_frame, frames,
          duration, loop, exc, stdout, encoder_calls, output_file,
          exit_status, calls>>

-----------------------------------------------------------------------------
\* Exceptions

NoExc == [type |-> "None", msg |-> ""]
FileNotFoundError == [type |-> "FileNotFoundError", msg |-> "Input file not found"]
EmptySequence == [type |-> "ValueError", msg |-> "No frames were extracted from the GIF"]
\* An error raised by the image library in the named call.
LibraryError(op) == [type |-> "OSError", msg |-> op]

\* validate_dimensions with the two ordering tests made non-strict.
validate_dimensions_lax(left, top, right, bottom) ==
  IF left > right
    THEN [type |-> "ValueError", msg |-> "Left coordinate must be less than right coordinate"]
  ELSE IF top > bottom
    THEN [type |-> "ValueError", msg |-> "Top coordinate must be less than bottom coordinate"]
  ELSE IF \E x \in {left, top, right, bottom} : x < 0
    THEN [type |-> "ValueError", msg |-> "Coordinates cannot be negative"]
  ELSE NoExc

\* The exception validate_dimensions raises, NoExc when it returns.
validate_dimensions(left, top, right, bottom) ==
  IF left >= right
    THEN [type |-> "ValueError", msg |-> "Left coordinate must be less than right coordinate"]
  ELSE IF top >= bottom
    THEN [type |-> "ValueError", msg |-> "Top coordinate must be less than bottom coordinate"]
  ELSE IF \E x \in {left, top, right, bottom} : x < 0
    THEN [type |-> "ValueError", msg |-> "Coordinates cannot be negative"]
  ELSE NoExc

-----------------------------------------------------------------------------
\* Rasters

Grid(w, h) == (0..(w - 1)) \X (0..(h - 1))

NoFrame == [mode |-> "none", w |-> 0, h |-> 0, px |-> [p \in {} |-> <<0>>]]

\* The pixel all of whose bands are zero.
ZeroPixel(mode) ==
  CASE mode = "RGBA" -> <<0, 0, 0, 0>>
    [] mode = "RGB" -> <<0, 0, 0>>
    [] OTHER -> <<0>>

\* The pixel at (x, y) of frame k (0-based) of a file: never all zero.
FilePixel(mode, k, x, y) ==
  LET v == 1 + ((k + x + 2 * y) % 3)
  IN CASE mode = "RGBA" -> <<v, v + 1, v + 2, IF v = 1 THEN 0 ELSE 255>>
       [] mode = "RGB" -> <<v, v + 1, v + 2>>
       [] OTHER -> <<v>>

\* The files Image.open may find at the input path.
Files ==
  UNION {
    { [n_frames |-> n, modes |-> m, w |-> d[1], h |-> d[2], info |-> i] :
        m \in [1..n -> Modes], d \in Dims,
        i \in { dur @@ lp : dur \in {<<>>, [duration |-> 200]},
                            lp \in {<<>>, [loop |-> 3]} } } :
    n \in 0..MaxFrames }

NoImage == [n_frames |-> 0, modes |-> <<>>, w |-> 0, h |-> 0, info |-> <<>>]

\* img.info once img is positioned at frame k: frames after the first carry
\* their own display time.
InfoAt(file, k) ==
  IF k = 0 \/ "duration" \notin DOMAIN file.info
    THEN file.info
    ELSE [file.info EXCEPT !["duration"] = 70]

\* img.copy() with img positioned at frame k.
FrameAt(file, k) ==
  [mode |-> file.modes[k + 1], w |-> file.w, h |-> file.h,
   px |-> [p \in Grid(file.w, file.h) |-> FilePixel(file.modes[k + 1], k, p[1], p[2])]]

\* dict.get(key, default)
Get(d, key, default) == IF key \in DOMAIN d THEN d[key] ELSE default

\* crop that reads the box as 1-based coordinates.
crop_one_based(frame, box) ==
  LET w == box.right - box.left
      h == box.bottom - box.top
  IN [mode |-> frame.mode, w |-> w, h |-> h,
      px |-> [p \in Grid(w, h) |->
                IF <<box.left + p[1] - 1, box.top + p[2] - 1>> \in Grid(frame.w, frame.h)
                  THEN frame.px[<<box.left + p[1] - 1, box.top + p[2] - 1>>]
                  ELSE ZeroPixel(frame.mode)]]

\* frame.crop((left, top, right, bottom)): a raster of the box's size, the
\* pixels outside the source zero-filled.
crop(frame, box) ==
  LET w == box.right - box.left
      h == box.bottom - box.top
  IN [mode |-> frame.mode, w |-> w, h |-> h,
      px |-> [p \in Grid(w, h) |->
                IF <<box.left + p[1], box.top + p[2]>> \in Grid(frame.w, frame.h)
                  THEN frame.px[<<box.left + p[1], box.top + p[2]>>]
                  ELSE ZeroPixel(frame.mode)]]

\* One pixel of frame.convert('RGBA').
ToRGBA(mode, p) ==
  CASE mode = "RGBA" -> p
    [] mode = "RGB" -> <<p[1], p[2], p[3], 255>>
    [] mode = "L" -> <<p[1], p[1], p[1], 255>>

\* frame.convert('RGBA')
convert(frame) ==
  [mode |-> "RGBA", w |-> frame.w, h |-> frame.h,
   px |-> [p \in DOMAIN frame.px |-> ToRGBA(frame.mode, frame.px[p])]]

\* The test of line 35 with 'RGB' taken for a mode that needs no conversion.
needs_convert_rgb_kept(mode) == mode \notin {"RGBA", "P", "RGB"}

\* cropped_frame.mode not in ['RGBA', 'P']
needs_convert(mode) == mode \notin {"RGBA", "P"}


\* frames.insert(0, f) in place of frames.append(f).
append_front(list, f) == <<f>> \o list

\* frames.append(f)
append(list, f) == Append(list, f)

\* Both header values read with the other one's default.
HeaderValues_swapped_defaults(d) ==
  [duration |-> Get(d, "duration", DefaultLoop), loop |-> Get(d, "loop", DefaultDuration)]

\* duration and loop as lines 21-22 read them from img.info.
HeaderValues(d) ==
  [duration |-> Get(d, "duration", DefaultDuration), loop |-> Get(d, "loop", DefaultLoop)]

-----------------------------------------------------------------------------
\* The program

Boxes == [left : Coords, top : Coords, right : Coords, bottom : Coords]

Init ==
  /\ pc = "exists"
  /\ input_exists \in BOOLEAN
  /\ args \in Boxes
  /\ img = NoImage
  /\ info = <<>>
  /\ fp = "unopened"
  /\ frame_no = 0
  /\ current = NoFrame
  /\ cropped_frame = NoFrame
  /\ frames = <<>>
  /\ duration = DefaultDuration
  /\ loop = DefaultLoop
  /\ exc = NoExc
  /\ stdout = <<>>
  /\ encoder_calls = <<>>
  /\ output_file = "untouched"
  /\ exit_status = -1
  /\ calls = <<>>

\* An exception leaves the body of the with statement.
RaiseInWith(e) ==
  /\ exc' = e
  /\ pc' = "with_exit"

\* main without the test of line 87: the path is never looked at.
CheckExists_unchecked ==
  /\ pc = "exists"
  /\ calls' = Append(calls, "exists")
  /\ pc' = "validate"
  /\ UNCHANGED <<input_exists, args, img, info, fp, frame_no, current, cropped_frame, frames, duration, loop, exc, stdout, encoder_calls, output_file, exit_status>>

\* main, lines 87-88: Path(args.input).exists()
CheckExists ==
  /\ pc = "exists"
  /\ calls' = Append(calls, "exists")
  /\ IF input_exists
       THEN /\ pc' = "validate"
            /\ exc' = exc
       ELSE /\ pc' = "main_except"
            /\ exc' = FileNotFoundError
  /\ UNCHANGED <<input_exists, args, img, info, fp, frame_no, current, cropped_frame, frames,
                 duration, loop, stdout, encoder_calls, output_file, exit_status>>

\* main, line 91: validate_dimensions(args.left, args.top, args.right, args.bottom)
Validate ==
  /\ pc = "validate"
  /\ calls' = Append(calls, "validate")
  /\ LET e == validate_dimensions(args.left, args.top, args.right, args.bottom)
     IN /\ exc' = e
        /\ pc' = IF e = NoExc THEN "open" ELSE "main_except"
  /\ UNCHANGED <<input_exists, args, img, info, fp, frame_no, current, cropped_frame, frames,
                 duration, loop, stdout, encoder_calls, output_file, exit_status>>

\* crop_gif, line 19: with Image.open(input_path) as img
Open ==
  /\ pc = "open"
  /\ calls' = Append(calls, "open")
  /\ \/ /\ exc' = LibraryError("open")
        /\ pc' = "crop_gif_except"
        /\ UNCHANGED <<img, info, fp>>
     \/ \E file \in Files :
          /\ input_exists
          /\ img' = file
          /\ info' = InfoAt(file, 0)
          /\ fp' = "open"
          /\ pc' = "header"
          /\ exc' = exc
  /\ UNCHANGED <<input_exists, args, frame_no, current, cropped_frame, frames, duration, loop,
                 stdout, encoder_calls, output_file, exit_status>>

\* crop_gif, lines 21-25
ReadHeader ==
  /\ pc = "header"
  /\ duration' = HeaderValues(info).duration
  /\ loop' = HeaderValues(info).loop
  /\ frames' = <<>>
  /\ pc' = "copy"
  /\ UNCHANGED <<input_exists, args, img, info, fp, frame_no, current, cropped_frame, exc,
                 stdout, encoder_calls, output_file, exit_status, calls>>

\* crop_gif, line 29: current = img.copy().  A file without any frame signals
\* the end of the sequence on the first load.
Copy ==
  /\ pc = "copy"
  /\ calls' = Append(calls, "copy")
  /\ IF frame_no >= img.n_frames
       THEN /\ pc' = "eof"
            /\ UNCHANGED <<current, exc>>
       ELSE \/ /\ RaiseInWith(LibraryError("copy"))
               /\ UNCHANGED current
            \/ /\ current' = FrameAt(img, frame_no)
               /\ pc' = "crop"
               /\ exc' = exc
  /\ UNCHANGED <<input_exists, args, img, info, fp, frame_no, cropped_frame, frames, duration,
                 loop, stdout, encoder_calls, output_file, exit_status>>

\* crop_gif, line 32: cropped_frame = current.crop((left, top, right, bottom))
Crop ==
  /\ pc = "crop"
  /\ calls' = Append(calls, "crop")
  /\ \/ /\ RaiseInWith(LibraryError("crop"))
        /\ UNCHANGED cropped_frame
     \/ /\ cropped_frame' = crop(current, args)
        /\ pc' = "convert"
        /\ exc' = exc
  /\ UNCHANGED <<input_exists, args, img, info, fp, frame_no, current, frames, duration, loop,
                 stdout, encoder_calls, output_file, exit_status>>

\* crop_gif, lines 35-36
Convert ==
  /\ pc = "convert"
  /\ IF needs_convert(cropped_frame.mode)
       THEN \/ /\ RaiseInWith(LibraryError("convert"))
               /\ UNCHANGED cropped_frame
            \/ /\ cropped_frame' = convert(cropped_frame)
               /\ pc' = "append"
               /\ exc' = exc
       ELSE /\ pc' = "append"
            /\ UNCHANGED <<cropped_frame, exc>>
  /\ UNCHANGED <<input_exists, args, img, info, fp, frame_no, current, frames, duration, loop,
                 stdout, encoder_calls, output_file, exit_status, calls>>

\* crop_gif, line 38
AppendFrame ==
  /\ pc = "append"
  /\ frames' = append(frames, cropped_frame)
  /\ pc' = "seek"
  /\ UNCHANGED <<input_exists, args, img, info, fp, frame_no, current, cropped_frame, duration,
                 loop, exc, stdout, encoder_calls, output_file, exit_status, calls>>

\* crop_gif, line 41: img.seek(img.tell() + 1); past the last frame the
\* decoder raises EOFError and stays where it was.
Seek ==
  /\ pc = "seek"
  /\ calls' = Append(calls, "seek")
  /\ IF frame_no + 1 >= img.n_frames
       THEN /\ pc' = "eof"
            /\ UNCHANGED <<frame_no, info, exc>>
       ELSE \/ /\ RaiseInWith(LibraryError("seek"))
               /\ UNCHANGED <<frame_no, info>>
            \/ /\ frame_no' = frame_no + 1
               /\ info' = InfoAt(img, frame_no + 1)
               /\ pc' = "copy"
               /\ exc' = exc
  /\ UNCHANGED <<input_exists, args, img, fp, current, cropped_frame, frames, duration, loop,
                 stdout, encoder_calls, output_file, exit_status>>

\* crop_gif, lines 43-45: except EOFError: pass
EndOfFrames ==
  /\ pc = "eof"
  /\ calls' = Append(calls, "EOFError")
  /\ pc' = "save"
  /\ UNCHANGED <<input_exists, args, img, info, fp, frame_no, current, cropped_frame, frames,
                 duration, loop, exc, stdout, encoder_calls, output_file, exit_status>>

\* The argument of lines 49-56: frames[0].save(output_path, save_all=True,
\* append_images=frames[1:], duration=duration, loop=loop, optimize=True)
SaveCall ==
  [first |-> Head(frames), append_images |-> Tail(frames),
   duration |-> duration, loop |-> loop]

\* Lines 48-59 without the test of line 48: frames[0] of an empty list raises
\* IndexError.
Save_unguarded ==
  /\ pc = "save"
  /\ IF frames # <<>>
       THEN /\ calls' = Append(calls, "save")
            /\ encoder_calls' = Append(encoder_calls, SaveCall)
            /\ \/ /\ RaiseInWith(LibraryError("save"))
                  /\ output_file' = "partial"
               \/ /\ output_file' = "written"
                  /\ pc' = "print"
                  /\ exc' = exc
       ELSE /\ RaiseInWith([type |-> "IndexError", msg |-> "list index out of range"])
            /\ UNCHANGED <<calls, encoder_calls, output_file>>
  /\ UNCHANGED <<input_exists, args, img, info, fp, frame_no, current, cropped_frame, frames, duration, loop, stdout, exit_status>>

\* crop_gif, lines 48-59
Save ==
  /\ pc = "save"
  /\ IF frames # <<>>
       THEN /\ calls' = Append(calls, "save")
            /\ encoder_calls' = Append(encoder_calls, SaveCall)
            /\ \/ /\ RaiseInWith(LibraryError("save"))
                  /\ output_file' = "partial"
               \/ /\ output_file' = "written"
                  /\ pc' = "print"
                  /\ exc' = exc
       ELSE /\ RaiseInWith(EmptySequence)
            /\ UNCHANGED <<calls, encoder_calls, output_file>>
  /\ UNCHANGED <<input_exists, args, img, info, fp, frame_no, current, cropped_frame, frames,
                 duration, loop, stdout, exit_status>>

\* crop_gif, line 57
PrintSuccess ==
  /\ pc = "print"
  /\ stdout' = Append(stdout, <<"Successfully saved cropped GIF to", "output_path">>)
  /\ pc' = "with_exit"
  /\ UNCHANGED <<input_exists, args, img, info, fp, frame_no, current, cropped_frame, frames,
                 duration, loop, exc, encoder_calls, output_file, exit_status, calls>>

\* Image.open without the with statement, img.close() after the success
\* message only.
WithExit_close_on_success ==
  /\ pc = "with_exit"
  /\ fp' = IF exc = NoExc THEN "closed" ELSE fp
  /\ pc' = IF exc = NoExc THEN "return" ELSE "crop_gif_except"
  /\ UNCHANGED <<input_exists, args, img, info, frame_no, current, cropped_frame, frames, duration, loop, exc, stdout, encoder_calls, output_file, exit_status, calls>>

\* crop_gif, line 19: the with statement closes img on the way out, whether
\* its body returned or raised.
WithExit ==
  /\ pc = "with_exit"
  /\ fp' = "closed"
  /\ pc' = IF exc = NoExc THEN "return" ELSE "crop_gif_except"
  /\ UNCHANGED <<input_exists, args, img, info, frame_no, current, cropped_frame, frames,
                 duration, loop, exc, stdout, encoder_calls, output_file,
                 exit_status, calls>>

\* Lines 61-63 without the raise of line 63: the error is printed and dropped.
CropGifExcept_swallow ==
  /\ pc = "crop_gif_except"
  /\ stdout' = Append(stdout, <<"Error processing GIF:", exc.msg>>)
  /\ exc' = NoExc
  /\ pc' = "return"
  /\ UNCHANGED <<input_exists, args, img, info, fp, frame_no, current, cropped_frame, frames, duration, loop, encoder_calls, output_file, exit_status, calls>>

\* crop_gif, lines 61-63: print the error and raise it again
CropGifExcept ==
  /\ pc = "crop_gif_except"
  /\ stdout' = Append(stdout, <<"Error processing GIF:", exc.msg>>)
  /\ pc' = "main_except"
  /\ UNCHANGED <<input_exists, args, img, info, fp, frame_no, current, cropped_frame, frames,
                 duration, loop, exc, encoder_calls, output_file, exit_status, calls>>

\* main, lines 96-98
MainExcept ==
  /\ pc = "main_except"
  /\ stdout' = Append(stdout, <<"Error:", exc.msg>>)
  /\ exit_status' = 1
  /\ pc' = "done"
  /\ UNCHANGED <<input_exists, args, img, info, fp, frame_no, current, cropped_frame, frames,
                 duration, loop, exc, encoder_calls, output_file, calls>>

\* main, line 100
MainReturn ==
  /\ pc = "return"
  /\ exit_status' = 0
  /\ pc' = "done"
  /\ UNCHANGED <<input_exists, args, img, info, fp, frame_no, current, cropped_frame, frames,
                 duration, loop, exc, stdout, encoder_calls, output_file, calls>>

Next ==
  \/ CheckExists
  \/ Validate
  \/ Open
  \/ ReadHeader
  \/ Copy
  \/ Crop
  \/ Convert
  \/ AppendFrame
  \/ Seek
  \/ EndOfFrames
  \/ Save
  \/ PrintSuccess
  \/ WithExit
  \/ CropGifExcept
  \/ MainExcept
  \/ MainReturn

Spec == Init /\ [][Next]_vars

-----------------------------------------------------------------------------
\* Vocabulary of the properties

Has(c) == \E i \in DOMAIN calls : calls[i] = c
Count(c) == Cardinality({i \in DOMAIN calls : calls[i] = c})
Printed(prefix) == {i \in DOMAIN stdout : stdout[i][1] = prefix}
Done == pc = "done"
\* The frames of one encoder call, first frame and append_images together.
EncodedFrames(c) == <<c.first>> \o c.append_images
\* The frame loop has ended with the decoder's end-of-sequence signal.
LoopEnded == Has("EOFError")

ValidBox ==
  /\ 0 <= args.left /\ args.left < args.right
  /\ 0 <= args.top /\ args.top < args.bottom
FullFrameBox ==
  /\ img # NoImage
  /\ args = [left |-> 0, top |-> 0, right |-> img.w, bottom |-> img.h]
OutOfBoundsBox ==
  /\ img # NoImage
  /\ args.right > img.w \/ args.bottom > img.h

\* What a source pixel looks like in an output frame: unchanged in the modes
\* RGBA and P, otherwise its colour with an opaque alpha band.
Shown(mode, p) ==
  IF mode \in {"RGBA", "P"} THEN p
  ELSE IF mode = "RGB" THEN <<p[1], p[2], p[3], 255>>
  ELSE <<p[1], p[1], p[1], 255>>

\* out has the box's size and, where the box lies over input frame k
\* (1-based), that frame's pixels.
IsCropOfInput(out, k) ==
  LET src == FrameAt(img, k - 1)
  IN /\ out.w = args.right - args.left
     /\ out.h = args.bottom - args.top
     /\ DOMAIN out.px = Grid(out.w, out.h)
     /\ \A p \in Grid(out.w, out.h) :
          LET q == <<args.left + p[1], args.top + p[2]>>
          IN q \in Grid(src.w, src.h) => out.px[p] = Shown(src.mode, src.px[q])

-----------------------------------------------------------------------------
\* C1: validate_dimensions returns without error exactly when
\* 0 <= left < right and 0 <= top < bottom; for every other quadruple,
\* left = right, top = bottom and negative coordinates included, it raises
\* ValueError.
C1_ValidateDimensions ==
  calls = <<"exists", "validate">> =>
    IF ValidBox
      THEN exc = NoExc /\ pc = "open"
      ELSE exc.type = "ValueError" /\ pc \in {"main_except", "done"}

C1_Witness ==
  /\ calls = <<"exists", "validate">>
  /\ args.left = args.right /\ 0 <= args.left
  /\ 0 <= args.top /\ args.top < args.bottom
  /\ exc.type = "ValueError"

\* C2: whenever the encoder is called it is handed exactly as many frames as
\* the input holds, frame k being the crop of input frame k with dimensions
\* (right-left) x (bottom-top); the loop has then run once per input frame
\* and has been ended by the end-of-sequence signal; and an input with at
\* least one frame never ends in the empty-sequence error.
C2_EncoderGetsEveryFrameInOrder ==
  /\ \A i \in DOMAIN encoder_calls :
       LET fs == EncodedFrames(encoder_calls[i])
       IN /\ img.n_frames >= 1
          /\ Len(fs) = img.n_frames
          /\ \A k \in 1..Len(fs) : IsCropOfInput(fs[k], k)
          /\ Count("copy") = img.n_frames
          /\ Count("crop") = img.n_frames
          /\ LoopEnded
  /\ (LoopEnded /\ img.n_frames >= 1) => Len(frames) = img.n_frames
  /\ (Done /\ img.n_frames >= 1 /\ exc = NoExc) => Len(encoder_calls) = 1
  /\ img.n_frames >= 1 => exc # EmptySequence

C2_Witness ==
  /\ Done
  /\ exit_status = 0
  /\ img.n_frames = 2
  /\ Len(encoder_calls) = 1
  /\ Len(encoder_calls[1].append_images) = 1
  /\ args.left = 1

\* C3: the loop count and the duration passed to the encoder are the values
\* of the input's header as it was before any seek: loop is the header's
\* loop, 0 when it has none; duration is one number, the header's duration,
\* 100 when it has none.
C3_MetadataFromHeader ==
  \A i \in DOMAIN encoder_calls :
    /\ encoder_calls[i].loop =
         (IF "loop" \in DOMAIN img.info THEN img.info["loop"] ELSE 0)
    /\ encoder_calls[i].duration =
         (IF "duration" \in DOMAIN img.info THEN img.info["duration"] ELSE 100)
    /\ encoder_calls[i].duration \in Int

C3_Witness ==
  /\ Len(encoder_calls) = 1
  /\ "duration" \in DOMAIN info /\ info["duration"] = 70
  /\ encoder_calls[1].duration = 200
  /\ "loop" \notin DOMAIN img.info
  /\ encoder_calls[1].loop = 0

\* C4: the stages run in the order existence check, dimension validation,
\* decode, crop of every frame, encode; when the existence check or the
\* validation fails the decoder and the encoder are never called, no output
\* file is touched and the exit status is 1; a missing input is reported as
\* FileNotFound whatever the crop box is.
C4_StageOrder ==
  /\ \A i \in DOMAIN calls :
       /\ calls[i] = "exists" <=> i = 1
       /\ calls[i] = "validate" <=> i = 2
       /\ calls[i] = "open" <=> i = 3
       /\ calls[i] = "save" =>
            /\ i = Len(calls)
            /\ LoopEnded
            /\ Count("crop") = img.n_frames
  /\ ~input_exists =>
       /\ ~Has("validate") /\ ~Has("open")
       /\ fp = "unopened" /\ encoder_calls = <<>> /\ output_file = "untouched"
       /\ pc # "exists" => exc = FileNotFoundError
       /\ Done => /\ exit_status = 1
                  /\ stdout = << <<"Error:", "Input file not found">> >>
  /\ (input_exists /\ ~ValidBox) =>
       /\ ~Has("open")
       /\ fp = "unopened" /\ encoder_calls = <<>> /\ output_file = "untouched"
       /\ Done => exit_status = 1 /\ exc.type = "ValueError"

C4_Witness ==
  /\ Done
  /\ ~input_exists
  /\ ~ValidBox
  /\ exit_status = 1
  /\ calls = <<"exists">>

\* The state part of C5.
C5_StatusAndMessages ==
  /\ ~Done => exit_status = -1
  /\ pc = "eof" => exc = NoExc /\ stdout = <<>>
  /\ Done =>
       /\ exit_status \in {0, 1}
       /\ exit_status = 0 <=>
            /\ exc = NoExc
            /\ output_file = "written"
            /\ Len(encoder_calls) = 1
            /\ calls[Len(calls)] = "save"
       /\ exit_status = 1 <=> exc # NoExc
       /\ exit_status = 1 =>
            /\ stdout[Len(stdout)] = <<"Error:", exc.msg>>
            /\ Cardinality(Printed("Error:")) = 1
            /\ Printed("Successfully saved cropped GIF to") = {}
       /\ exit_status = 0 =>
            stdout = << <<"Successfully saved cropped GIF to", "output_path">> >>

C6_HandleClosed ==
  /\ pc \in {"return", "crop_gif_except", "main_except", "done"} =>
       /\ fp # "open"
       /\ img # NoImage => fp = "closed"
  /\ pc \in {"header", "copy", "crop", "convert", "append", "seek", "eof",
             "save", "print", "with_exit"} => fp = "open"

C6_Witness ==
  /\ Done
  /\ exc = LibraryError("convert")
  /\ fp = "closed"
  /\ img # NoImage

C8_CropOutOfBoundsFails ==
  OutOfBoundsBox =>
    /\ cropped_frame = NoFrame
    /\ frames = <<>>
    /\ encoder_calls = <<>>
    /\ Done => exit_status = 1

\* C9: every frame of the output sequence has mode RGBA or P: a cropped frame
\* in one of these modes keeps its mode, a cropped frame in any other mode
\* is appended in mode RGBA.
C9_FrameModes ==
  /\ \A k \in 1..Len(frames) :
       /\ frames[k].mode \in {"RGBA", "P"}
       /\ frames[k].mode =
            (IF img.modes[k] \in {"RGBA", "P"} THEN img.modes[k] ELSE "RGBA")
  /\ \A i \in DOMAIN encoder_calls :
       \A k \in 1..Len(EncodedFrames(encoder_calls[i])) :
         EncodedFrames(encoder_calls[i])[k].mode \in {"RGBA", "P"}

C9_Witness ==
  /\ Len(frames) = 2
  /\ img.modes = <<"P", "L">>
  /\ frames[1].mode = "P"
  /\ frames[2].mode = "RGBA"

\* C10: the encoder is called at most once, after the end-of-sequence signal
\* and with the non-empty frame list; when no frame was extracted crop_gif
\* raises ValueError 'No frames were extracted from the GIF' and neither
\* calls the encoder nor prints the success message; the success message is
\* printed only once the encoder has returned.
C10_EncoderNeedsFrames ==
  /\ Len(encoder_calls) <= 1
  /\ \A i \in DOMAIN encoder_calls :
       /\ LoopEnded
       /\ frames # <<>>
       /\ EncodedFrames(encoder_calls[i]) = frames
  /\ (LoopEnded /\ frames = <<>> /\ pc # "save") =>
       /\ exc = EmptySequence
       /\ encoder_calls = <<>>
       /\ output_file = "untouched"
       /\ Printed("Successfully saved cropped GIF to") = {}
  /\ Printed("Successfully saved cropped GIF to") # {} =>
       /\ Len(encoder_calls) = 1
       /\ output_file = "written"

C10_Witness ==
  /\ Done
  /\ img # NoImage
  /\ img.n_frames = 0
  /\ exc = EmptySequence
  /\ encoder_calls = <<>>
  /\ exit_status = 1

=============================================================================
